---------------------------- MODULE Spec2Model ----------------------------
(***************************************************************************)
(* A model of the bytecode loader of Syntixi-VM, core/syx/src/undump.rs:   *)
(* LoadState::from_u8 and everything it calls.  The buffer is a sequence   *)
(* of bytes, the iterator `input` is the pair (input, pos), and the        *)
(* recursive descent of load_function / load_protos is an explicit stack   *)
(* of frames, one per load_function call in progress.                      *)
(***************************************************************************)
EXTENDS Integers, Sequences, FiniteSets, TLC

VARIABLES
    input,    \* the buffer handed to from_u8
    name,     \* LoadState.name, the diagnostic name of the dump
    origin,   \* how the buffer was built (history only; the loader never reads it)
    pos,      \* number of bytes the iterator LoadState.input has yielded
    phase,    \* where from_u8 / load_chunk stands
    stack,    \* one frame per load_function call in progress, innermost last
    result    \* what from_u8 returns

vars == <<input, name, origin, pos, phase, stack, result>>

-----------------------------------------------------------------------------
(* Bounds of the model. *)

\* largest element count of a section in the generated dumps
MaxCount == 2
\* largest number of bytes appended after a valid dump
MaxExtra == 2

-----------------------------------------------------------------------------
(* Widths of the primitives, std::mem::size_of::<T>() on a 64-bit target. *)

SizeU8 == 1
SizeI32 == 4
SizeUsize == 8
\* SyxInt, Word, SyxInteger, SyxNumber are declared in object.rs / opcodes.rs
SizeSyxInt == 4
SizeWord == 4
SizeSyxInteger == 8
SizeSyxNumber == 8

\* A usize or a count at or above this value behaves like every larger one:
\* no buffer of the model is that long.
UsizeCap == 1000000
\* limits::SYX_MAXSHORTLEN
SYX_MAXSHORTLEN == 40

(* Little-endian bytes of a value 0 <= v < 2^31, in w >= 4 bytes. *)
LE(v, w) ==
    [i \in 1..w |->
        CASE i = 1 -> v % 256
          [] i = 2 -> (v \div 256) % 256
          [] i = 3 -> (v \div 65536) % 256
          [] i = 4 -> (v \div 16777216) % 256
          [] OTHER -> 0]

(* Little-endian bytes of an i32, two's complement. *)
LE32(v) ==
    IF v >= 0 THEN LE(v, 4)
    ELSE LET u == v + 2147483647 + 1
         IN  [LE(u, 4) EXCEPT ![4] = @ + 128]

-----------------------------------------------------------------------------
(* Errors (errors.rs ErrorKind) and results. *)

Err(kind, who, msg, arg) ==
    [tag |-> "Err", kind |-> kind, name |-> who, msg |-> msg, arg |-> arg]

Fail(p, e) == [ok |-> FALSE, pos |-> p, v |-> <<>>, err |-> e]
Done(p, v) == [ok |-> TRUE, pos |-> p, v |-> v, err |-> <<>>]

\* raise_from_verification
raise_from_verification(who, msg, arg) ==
    Err("InvalidVerification", who, msg, arg)

\* Faulty variant of load_range: a short read leaves the iterator where it was.
load_range_nodrain(inp, who, p, range) ==
    IF Len(inp) - p >= range
    THEN Done(p + range, SubSeq(inp, p + 1, p + range))
    ELSE Fail(p, raise_from_verification(who, "Not enough bytes", range))

\* load_range: take(range).collect(), then the length assertion.  A short
\* read drains the iterator.
load_range(inp, who, p, range) ==
    IF Len(inp) - p >= range
    THEN Done(p + range, SubSeq(inp, p + 1, p + range))
    ELSE Fail(Len(inp), raise_from_verification(who, "Not enough bytes", range))

\* load::<T>: size_of::<T>() bytes read through a pointer cast.  The window
\* is the start of a fresh heap allocation, which the allocator aligns for
\* every primitive, so the read yields the bytes in the host's layout.  The
\* value is kept as its byte window; the As* operators below read it as the
\* little-endian scalar of the x86-64 build.
load(inp, who, p, size) == load_range(inp, who, p, size)

AsU8(b) == b[1]

\* i32 / SyxInt
AsI32(b) ==
    b[1] + 256 * b[2] + 65536 * b[3]
      + 16777216 * (IF b[4] >= 128 THEN b[4] - 256 ELSE b[4])

\* usize, saturated at UsizeCap
AsUsize(b) ==
    IF \E i \in 4..8 : b[i] # 0 THEN UsizeCap
    ELSE LET v == b[1] + 256 * b[2] + 65536 * b[3]
         IN  IF v > UsizeCap THEN UsizeCap ELSE v

\* `x as usize` of an i32: sign extension makes a negative count huge
I32AsUsize(v) == IF v < 0 \/ v > UsizeCap THEN UsizeCap ELSE v

\* Faulty variant of load_string: the size is not decremented.
load_string_nodec(inp, who, p) ==
    LET b == load(inp, who, p, SizeU8) IN
    IF ~b.ok THEN b ELSE
    LET w == IF AsU8(b.v) = 255 THEN load(inp, who, b.pos, SizeUsize)
             ELSE Done(b.pos, <<>>) IN
    IF ~w.ok THEN w ELSE
    LET size == IF AsU8(b.v) = 255 THEN AsUsize(w.v) ELSE AsU8(b.v) IN
    IF size = 0 THEN Done(w.pos, <<>>)
    ELSE load_range(inp, who, w.pos, size)

\* Faulty variant of load_string: size 0 is not set apart, and the decrement
\* wraps around.
load_string_nosentinel(inp, who, p) ==
    LET b == load(inp, who, p, SizeU8) IN
    IF ~b.ok THEN b ELSE
    LET w == IF AsU8(b.v) = 255 THEN load(inp, who, b.pos, SizeUsize)
             ELSE Done(b.pos, <<>>) IN
    IF ~w.ok THEN w ELSE
    LET size == IF AsU8(b.v) = 255 THEN AsUsize(w.v) ELSE AsU8(b.v) IN
    load_range(inp, who, w.pos, IF size = 0 THEN UsizeCap ELSE size - 1)

\* load_string
load_string(inp, who, p) ==
    LET b == load(inp, who, p, SizeU8) IN
    IF ~b.ok THEN b ELSE
    LET w == IF AsU8(b.v) = 255 THEN load(inp, who, b.pos, SizeUsize)
             ELSE Done(b.pos, <<>>) IN
    IF ~w.ok THEN w ELSE
    LET size == IF AsU8(b.v) = 255 THEN AsUsize(w.v) ELSE AsU8(b.v) IN
    IF size = 0 THEN Done(w.pos, <<>>)
    ELSE IF size - 1 < SYX_MAXSHORTLEN
         THEN load_range(inp, who, w.pos, size - 1)
         ELSE load_range(inp, who, w.pos, size - 1)

-----------------------------------------------------------------------------
(* The format constants of conf.rs. *)

SYX_HEADER == <<27, 83, 121, 120>>
SYX_VERSION == 83
SYX_FORMAT == 0
SYX_DATA == <<25, 147, 13, 10, 26, 10>>
\* 0x5678 as a SyxInteger; 370.5 as a SyxNumber (IEEE 754 double)
SYX_INT == <<120, 86, 0, 0, 0, 0, 0, 0>>
SYX_NUM == <<0, 0, 0, 0, 0, 40, 119, 64>>

\* assert_verification
assert_verification(who, p, val, msg) ==
    IF ~val THEN Fail(p, raise_from_verification(who, msg, 0))
    ELSE Done(p, <<>>)

\* check_size: a short read is swallowed
check_size(inp, who, p, size, ty) ==
    LET b == load(inp, who, p, SizeU8) IN
    IF b.ok THEN assert_verification(who, b.pos, AsU8(b.v) = size % 256, ty)
    ELSE Done(b.pos, <<>>)

\* check_literal: a short read is swallowed
check_literal(inp, who, p, value, msg) ==
    LET l == load_range(inp, who, p, Len(value)) IN
    IF l.ok THEN assert_verification(who, l.pos, l.v = value, msg)
    ELSE Done(l.pos, <<>>)

\* Faulty variant of HeaderSizes: the first two checks change places.
HeaderSizes_swapped ==
    << <<SizeUsize, "size mismatch: usize">>,
       <<SizeI32, "size mismatch: i32">>,
       <<SizeWord, "size mismatch: Word">>,
       <<SizeSyxInteger, "size mismatch: SyxInteger">>,
       <<SizeSyxNumber, "size mismatch: SyxNumber">> >>

\* The five check_size calls of check_header, in order.
HeaderSizes ==
    << <<SizeI32, "size mismatch: i32">>,
       <<SizeUsize, "size mismatch: usize">>,
       <<SizeWord, "size mismatch: Word">>,
       <<SizeSyxInteger, "size mismatch: SyxInteger">>,
       <<SizeSyxNumber, "size mismatch: SyxNumber">> >>

RECURSIVE check_sizes(_, _, _, _)
check_sizes(inp, who, p, k) ==
    IF k > Len(HeaderSizes) THEN Done(p, <<>>)
    ELSE LET c == check_size(inp, who, p, HeaderSizes[k][1], HeaderSizes[k][2])
         IN  IF ~c.ok THEN c ELSE check_sizes(inp, who, c.pos, k + 1)

\* check_header
check_header(inp, who, p) ==
    LET h == check_literal(inp, who, p, SYX_HEADER, "literal mismatch: header") IN
    IF ~h.ok THEN h ELSE
    LET v == load(inp, who, h.pos, SizeU8) IN
    IF ~v.ok THEN v ELSE
    LET va == assert_verification(who, v.pos, AsU8(v.v) = SYX_VERSION,
                                  "version mismatch") IN
    IF ~va.ok THEN va ELSE
    LET f == load(inp, who, va.pos, SizeU8) IN
    IF ~f.ok THEN f ELSE
    LET fa == assert_verification(who, f.pos, AsU8(f.v) = SYX_FORMAT,
                                  "format mismatch") IN
    IF ~fa.ok THEN fa ELSE
    LET d == check_literal(inp, who, fa.pos, SYX_DATA,
                           "literal mismatch: load order verification") IN
    IF ~d.ok THEN d ELSE
    LET s == check_sizes(inp, who, d.pos, 1) IN
    IF ~s.ok THEN s ELSE
    LET i == load(inp, who, s.pos, SizeSyxInteger) IN
    IF ~i.ok THEN i ELSE
    LET ia == assert_verification(who, i.pos, i.v = SYX_INT,
                                  "endianness mismatch") IN
    IF ~ia.ok THEN ia ELSE
    LET n == load(inp, who, ia.pos, SizeSyxNumber) IN
    IF ~n.ok THEN n ELSE
    assert_verification(who, n.pos, n.v = SYX_NUM, "float format mismatch")

-----------------------------------------------------------------------------
(* Collaborators of the loader: object.rs, opcodes.rs, std. *)

\* SyxType tags (object.rs), with the variant bits of the number and string
\* types
TNIL == 0
TBOOLEAN == 1
TLIGHTUSERDATA == 2
TNUMFLT == 3
TSHRSTR == 4
TTABLE == 5
TFUNCTION == 6
TUSERDATA == 7
TTHREAD == 8
TNUMINT == 19
TLNGSTR == 20

SyxTypes ==
    {TNIL, TBOOLEAN, TLIGHTUSERDATA, TNUMFLT, TSHRSTR, TTABLE, TFUNCTION,
     TUSERDATA, TTHREAD, TNUMINT, TLNGSTR}

\* SyxType::try_from(u8), and the conversion of its error by `?`
SyxType_try_from(p, tag) ==
    IF tag \in SyxTypes THEN Done(p, tag)
    ELSE Fail(p, Err("InvalidConstantType", "", "", tag))

\* Instruction::try_from(Word): the opcode field must name an opcode
NUM_OPCODES == 47
Instruction_try_from(p, w) ==
    IF w[1] % 64 < NUM_OPCODES THEN Done(p, w)
    ELSE Fail(p, Err("InvalidInstruction", "", "", w[1] % 64))

\* String::from_utf8: is s[i..] well-formed UTF-8
Cont(s, i) == i <= Len(s) /\ s[i] \in 128..191
RECURSIVE IsUtf8(_, _)
IsUtf8(s, i) ==
    IF i > Len(s) THEN TRUE
    ELSE LET b == s[i] IN
      CASE b < 128 -> IsUtf8(s, i + 1)
        [] b \in 194..223 -> Cont(s, i + 1) /\ IsUtf8(s, i + 2)
        [] b = 224 -> /\ i + 1 <= Len(s) /\ s[i + 1] \in 160..191
                      /\ Cont(s, i + 2) /\ IsUtf8(s, i + 3)
        [] b \in (225..236) \cup {238, 239} ->
                      /\ Cont(s, i + 1) /\ Cont(s, i + 2) /\ IsUtf8(s, i + 3)
        [] b = 237 -> /\ i + 1 <= Len(s) /\ s[i + 1] \in 128..159
                      /\ Cont(s, i + 2) /\ IsUtf8(s, i + 3)
        [] b = 240 -> /\ i + 1 <= Len(s) /\ s[i + 1] \in 144..191
                      /\ Cont(s, i + 2) /\ Cont(s, i + 3) /\ IsUtf8(s, i + 4)
        [] b \in 241..243 -> /\ Cont(s, i + 1) /\ Cont(s, i + 2)
                             /\ Cont(s, i + 3) /\ IsUtf8(s, i + 4)
        [] b = 244 -> /\ i + 1 <= Len(s) /\ s[i + 1] \in 128..143
                      /\ Cont(s, i + 2) /\ Cont(s, i + 3) /\ IsUtf8(s, i + 4)
        [] OTHER -> FALSE

\* Vec::reserve(count as usize) of a signed 32-bit count: sign extension makes
\* a negative count exceed isize::MAX bytes, which panics ("capacity
\* overflow"); a count up to i32::MAX does not.
reserve_overflows(count) == count < 0

\* Faulty variant of in_range: the range is taken as inclusive.
in_range_inclusive(i, count) == i <= count

\* `for _ in 0..count`: is there a turn number i
in_range(i, count) == i < count

\* Proto::new()
Proto_new ==
    [source |-> <<>>, linedefined |-> 0, lastlinedefined |-> 0,
     numparams |-> 0, is_vararg |-> FALSE, maxstacksize |-> 0,
     instructions |-> <<>>, constants |-> <<>>, upvalues |-> <<>>,
     protos |-> <<>>, lineinfo |-> <<>>, locvars |-> <<>>]

-----------------------------------------------------------------------------
(* The loader as a state machine. *)

None == [tag |-> "None"]
Panic(msg) == [tag |-> "Panic", kind |-> "panic", name |-> "", msg |-> msg, arg |-> 0]

\* One load_function call: the prototype being filled, the `source` argument,
\* the statement it stands at, and the index and bound of the loop it is in.
Frame(src) == [pc |-> "function", proto |-> Proto_new, src |-> src, i |-> 0, n |-> 0]

Top == stack[Len(stack)]
At(pc) == phase = "function" /\ stack # <<>> /\ Top.pc = pc

\* from_u8 is left: by its own return, by an Err propagated by `?`, or by a
\* panic.  Every frame is dropped.
Finish(p, e) ==
    /\ pos' = p
    /\ result' = e
    /\ phase' = "done"
    /\ stack' = <<>>
    /\ UNCHANGED <<input, name, origin>>

\* The innermost call goes on.
Continue(p, f) ==
    /\ pos' = p
    /\ stack' = [stack EXCEPT ![Len(stack)] = f]
    /\ UNCHANGED <<input, name, origin, phase, result>>

\* load_chunk: check_header
CheckHeader ==
    /\ phase = "header"
    /\ LET h == check_header(input, name, pos) IN
       IF ~h.ok THEN Finish(h.pos, h.err)
       ELSE /\ pos' = h.pos
            /\ phase' = "upvals"
            /\ UNCHANGED <<input, name, origin, stack, result>>

\* load_chunk: Proto::new(), the discarded upvalue-count byte, and the call
\* load_function(&mut proto, vec![])
LoadChunk ==
    /\ phase = "upvals"
    /\ LET u == load(input, name, pos, SizeU8) IN
       IF ~u.ok THEN Finish(u.pos, u.err)
       ELSE /\ pos' = u.pos
            /\ phase' = "function"
            /\ stack' = <<Frame(<<>>)>>
            /\ UNCHANGED <<input, name, origin, result>>

\* A run of self.load::<T>()? calls of the given sizes.
RECURSIVE load_all(_, _, _, _)
load_all(inp, who, p, sizes) ==
    IF sizes = <<>> THEN Done(p, <<>>)
    ELSE LET x == load(inp, who, p, Head(sizes)) IN
         IF ~x.ok THEN x
         ELSE LET r == load_all(inp, who, x.pos, Tail(sizes)) IN
              IF ~r.ok THEN r ELSE Done(r.pos, <<x.v>> \o r.v)

\* load_function, up to the call of load_code
LoadFunction ==
    /\ At("function")
    /\ LET s == load_string(input, name, pos) IN
       IF ~s.ok THEN Finish(s.pos, s.err) ELSE
       LET bytes == IF s.v # <<>> THEN s.v ELSE Top.src IN
       IF ~IsUtf8(bytes, 1)
       THEN Finish(s.pos, Err("InvalidSourceName", "", "", 0)) ELSE
       LET f == load_all(input, name, s.pos,
                         <<SizeSyxInt, SizeSyxInt, SizeU8, SizeU8, SizeU8>>) IN
       IF ~f.ok THEN Finish(f.pos, f.err) ELSE
       Continue(f.pos,
           [Top EXCEPT !.pc = "code",
                       !.proto.source = bytes,
                       !.proto.linedefined = AsI32(f.v[1]),
                       !.proto.lastlinedefined = AsI32(f.v[2]),
                       !.proto.numparams = AsU8(f.v[3]),
                       !.proto.is_vararg = (AsU8(f.v[4]) # 0),
                       !.proto.maxstacksize = AsU8(f.v[5])])

\* load_code: the count, clear and reserve
LoadCode ==
    /\ At("code")
    /\ LET c == load(input, name, pos, SizeSyxInt) IN
       IF ~c.ok THEN Finish(c.pos, c.err) ELSE
       IF reserve_overflows(AsI32(c.v)) THEN Finish(c.pos, Panic("capacity overflow"))
       ELSE Continue(c.pos, [Top EXCEPT !.pc = "code_loop", !.i = 0,
                                        !.n = AsI32(c.v),
                                        !.proto.instructions = <<>>])

\* load_code: one turn of the loop, or its end
LoadCodeLoop ==
    /\ At("code_loop")
    /\ IF in_range(Top.i, Top.n)
       THEN LET w == load(input, name, pos, SizeWord) IN
            IF ~w.ok THEN Finish(w.pos, w.err) ELSE
            LET ins == Instruction_try_from(w.pos, w.v) IN
            IF ~ins.ok THEN Finish(ins.pos, ins.err)
            ELSE Continue(w.pos,
                   [Top EXCEPT !.i = @ + 1,
                               !.proto.instructions = Append(@, ins.v)])
       ELSE Continue(pos, [Top EXCEPT !.pc = "constants"])

\* One decoded constant (SyxValue); the payload is kept as bytes.
SyxValue(t, v) == [t |-> t, v |-> v]

\* Faulty variant of load_constant: a tag of another type reads as Nil.
load_constant_lenient(inp, who, p) ==
    LET b == load(inp, who, p, SizeU8) IN
    IF ~b.ok THEN b ELSE
    LET ty == SyxType_try_from(b.pos, AsU8(b.v)) IN
    IF ~ty.ok THEN ty ELSE
    CASE ty.v = TBOOLEAN ->
            LET x == load(inp, who, b.pos, SizeU8) IN
            IF ~x.ok THEN x
            ELSE Done(x.pos, SyxValue("Bool", <<IF AsU8(x.v) = 1 THEN 1 ELSE 0>>))
      [] ty.v = TNUMFLT ->
            LET x == load(inp, who, b.pos, SizeSyxNumber) IN
            IF ~x.ok THEN x ELSE Done(x.pos, SyxValue("Number", x.v))
      [] ty.v = TNUMINT ->
            LET x == load(inp, who, b.pos, SizeSyxInteger) IN
            IF ~x.ok THEN x ELSE Done(x.pos, SyxValue("Integer", x.v))
      [] ty.v \in {TSHRSTR, TLNGSTR} ->
            LET x == load_string(inp, who, b.pos) IN
            IF ~x.ok THEN x ELSE Done(x.pos, SyxValue("String", x.v))
      [] OTHER -> Done(b.pos, SyxValue("Nil", <<>>))

\* load_constants: the body of the loop, the match on the tag
load_constant(inp, who, p) ==
    LET b == load(inp, who, p, SizeU8) IN
    IF ~b.ok THEN b ELSE
    LET ty == SyxType_try_from(b.pos, AsU8(b.v)) IN
    IF ~ty.ok THEN ty ELSE
    CASE ty.v = TNIL -> Done(b.pos, SyxValue("Nil", <<>>))
      [] ty.v = TBOOLEAN ->
            LET x == load(inp, who, b.pos, SizeU8) IN
            IF ~x.ok THEN x
            ELSE Done(x.pos, SyxValue("Bool", <<IF AsU8(x.v) = 1 THEN 1 ELSE 0>>))
      [] ty.v = TNUMFLT ->
            LET x == load(inp, who, b.pos, SizeSyxNumber) IN
            IF ~x.ok THEN x ELSE Done(x.pos, SyxValue("Number", x.v))
      [] ty.v = TNUMINT ->
            LET x == load(inp, who, b.pos, SizeSyxInteger) IN
            IF ~x.ok THEN x ELSE Done(x.pos, SyxValue("Integer", x.v))
      [] ty.v \in {TSHRSTR, TLNGSTR} ->
            LET x == load_string(inp, who, b.pos) IN
            IF ~x.ok THEN x ELSE Done(x.pos, SyxValue("String", x.v))
      [] OTHER -> Fail(b.pos, Err("InvalidConstantType", "", "", ty.v))

\* load_constants: the count (an i32 widened to isize) and clear
LoadConstants ==
    /\ At("constants")
    /\ LET c == load(input, name, pos, SizeI32) IN
       IF ~c.ok THEN Finish(c.pos, c.err)
       ELSE Continue(c.pos, [Top EXCEPT !.pc = "constants_loop", !.i = 0,
                                        !.n = AsI32(c.v),
                                        !.proto.constants = <<>>])

\* load_constants: one turn of the loop, or its end
LoadConstantsLoop ==
    /\ At("constants_loop")
    /\ IF in_range(Top.i, Top.n)
       THEN LET k == load_constant(input, name, pos) IN
            IF ~k.ok THEN Finish(k.pos, k.err)
            ELSE Continue(k.pos,
                   [Top EXCEPT !.i = @ + 1,
                               !.proto.constants = Append(@, k.v)])
       ELSE Continue(pos, [Top EXCEPT !.pc = "upvalues"])

\* load_upvalues: the count, clear and reserve
LoadUpvalues ==
    /\ At("upvalues")
    /\ LET c == load(input, name, pos, SizeSyxInt) IN
       IF ~c.ok THEN Finish(c.pos, c.err) ELSE
       IF reserve_overflows(AsI32(c.v)) THEN Finish(c.pos, Panic("capacity overflow"))
       ELSE Continue(c.pos, [Top EXCEPT !.pc = "upvalues_loop", !.i = 0,
                                        !.n = AsI32(c.v),
                                        !.proto.upvalues = <<>>])

\* load_upvalues: one turn of the loop, or its end
LoadUpvaluesLoop ==
    /\ At("upvalues_loop")
    /\ IF in_range(Top.i, Top.n)
       THEN LET u == load_all(input, name, pos, <<SizeU8, SizeU8>>) IN
            IF ~u.ok THEN Finish(u.pos, u.err)
            ELSE Continue(u.pos,
                   [Top EXCEPT !.i = @ + 1,
                               !.proto.upvalues =
                                   Append(@, [name |-> <<>>,
                                              instack |-> AsU8(u.v[1]),
                                              idx |-> AsU8(u.v[2])])])
       ELSE Continue(pos, [Top EXCEPT !.pc = "protos"])

\* load_protos: the count, clear and reserve
LoadProtos ==
    /\ At("protos")
    /\ LET c == load(input, name, pos, SizeSyxInt) IN
       IF ~c.ok THEN Finish(c.pos, c.err) ELSE
       IF reserve_overflows(AsI32(c.v)) THEN Finish(c.pos, Panic("capacity overflow"))
       ELSE Continue(c.pos, [Top EXCEPT !.pc = "protos_loop", !.i = 0,
                                        !.n = AsI32(c.v),
                                        !.proto.protos = <<>>])

\* The `source` argument load_protos gives the nested load_function.
child_source(parent) == <<>>

\* load_protos: one turn of the loop up to the call
\* load_function(&mut new_proto, vec![]), or the end of the loop
LoadProtosLoop ==
    /\ At("protos_loop")
    /\ IF in_range(Top.i, Top.n)
       THEN /\ stack' = Append(stack, Frame(child_source(Top.proto)))
            /\ UNCHANGED <<input, name, origin, pos, phase, result>>
       ELSE Continue(pos, [Top EXCEPT !.pc = "debug_lines"])

\* load_function returns Ok(()) to load_protos, which pushes the prototype
ReturnToProtos ==
    /\ At("return")
    /\ Len(stack) > 1
    /\ LET parent == stack[Len(stack) - 1] IN
       stack' = Append(SubSeq(stack, 1, Len(stack) - 2),
                       [parent EXCEPT !.i = @ + 1,
                                      !.proto.protos = Append(@, Top.proto)])
    /\ UNCHANGED <<input, name, origin, pos, phase, result>>

\* load_debug: the line count, clear and reserve
LoadDebug ==
    /\ At("debug_lines")
    /\ LET c == load(input, name, pos, SizeSyxInt) IN
       IF ~c.ok THEN Finish(c.pos, c.err) ELSE
       IF reserve_overflows(AsI32(c.v)) THEN Finish(c.pos, Panic("capacity overflow"))
       ELSE Continue(c.pos, [Top EXCEPT !.pc = "debug_lines_loop", !.i = 0,
                                        !.n = I32AsUsize(AsI32(c.v)),
                                        !.proto.lineinfo = <<>>])

\* load_debug: one turn of the line loop, or its end
LoadDebugLinesLoop ==
    /\ At("debug_lines_loop")
    /\ IF in_range(Top.i, Top.n)
       THEN LET l == load(input, name, pos, SizeSyxInt) IN
            IF ~l.ok THEN Finish(l.pos, l.err)
            ELSE Continue(l.pos,
                   [Top EXCEPT !.i = @ + 1,
                               !.proto.lineinfo = Append(@, AsI32(l.v))])
       ELSE Continue(pos, [Top EXCEPT !.pc = "debug_locvars"])

\* load_debug: the local-variable count, clear and reserve
LoadDebugLocvars ==
    /\ At("debug_locvars")
    /\ LET c == load(input, name, pos, SizeSyxInt) IN
       IF ~c.ok THEN Finish(c.pos, c.err) ELSE
       IF reserve_overflows(AsI32(c.v)) THEN Finish(c.pos, Panic("capacity overflow"))
       ELSE Continue(c.pos, [Top EXCEPT !.pc = "debug_locvars_loop", !.i = 0,
                                        !.n = I32AsUsize(AsI32(c.v)),
                                        !.proto.locvars = <<>>])

\* load_debug: one turn of the local-variable loop, or its end
LoadDebugLocvarsLoop ==
    /\ At("debug_locvars_loop")
    /\ IF in_range(Top.i, Top.n)
       THEN LET s == load_string(input, name, pos) IN
            IF ~s.ok THEN Finish(s.pos, s.err) ELSE
            LET r == load_all(input, name, s.pos, <<SizeSyxInt, SizeSyxInt>>) IN
            IF ~r.ok THEN Finish(r.pos, r.err)
            ELSE Continue(r.pos,
                   [Top EXCEPT !.i = @ + 1,
                               !.proto.locvars =
                                   Append(@, [varname |-> s.v,
                                              startpc |-> AsI32(r.v[1]),
                                              endpc |-> AsI32(r.v[2])])])
       ELSE Continue(pos, [Top EXCEPT !.pc = "debug_upvalues"])

\* load_debug: the upvalue-name count
LoadDebugUpvalues ==
    /\ At("debug_upvalues")
    /\ LET c == load(input, name, pos, SizeSyxInt) IN
       IF ~c.ok THEN Finish(c.pos, c.err)
       ELSE Continue(c.pos, [Top EXCEPT !.pc = "debug_upvalues_loop", !.i = 0,
                                        !.n = I32AsUsize(AsI32(c.v))])

\* Faulty variant of get_mut_some: the bound is off by one.
get_mut_some_inclusive(upvalues, i) == i <= Len(upvalues)

\* proto.upvalues.get_mut(i) is Some
get_mut_some(upvalues, i) == i < Len(upvalues)

\* load_debug: one turn of the upvalue-name loop, or its end and the Ok(())
\* of load_debug and of load_function
LoadDebugUpvaluesLoop ==
    /\ At("debug_upvalues_loop")
    /\ IF in_range(Top.i, Top.n)
       THEN IF get_mut_some(Top.proto.upvalues, Top.i)
            THEN LET s == load_string(input, name, pos) IN
                 IF ~s.ok THEN Finish(s.pos, s.err)
                 ELSE Continue(s.pos,
                        [Top EXCEPT !.i = @ + 1,
                                    !.proto.upvalues[Top.i + 1].name = s.v])
            ELSE Finish(pos, Err("InvalidUpvalueIndex", "", "", Top.i))
       ELSE Continue(pos, [Top EXCEPT !.pc = "return"])

\* Faulty variant of trailing: the arms of the match change places.
trailing_swapped(inp, who, p, proto) ==
    LET b == load(inp, who, p, SizeU8) IN
    IF b.ok THEN [pos |-> b.pos, res |-> [tag |-> "Ok", proto |-> proto]]
    ELSE [pos |-> b.pos, res |-> Err("BufferNotEmpty", "", "", 0)]

\* from_u8 after load_chunk returned: one more byte must not be there
trailing(inp, who, p, proto) ==
    LET b == load(inp, who, p, SizeU8) IN
    IF ~b.ok THEN [pos |-> b.pos, res |-> [tag |-> "Ok", proto |-> proto]]
    ELSE [pos |-> b.pos, res |-> Err("BufferNotEmpty", "", "", 0)]

\* The root load_function returns to load_chunk, load_chunk to from_u8, and
\* from_u8 makes its last read.
FromU8Return ==
    /\ At("return")
    /\ Len(stack) = 1
    /\ LET t == trailing(input, name, pos, Top.proto) IN
       Finish(t.pos, t.res)

Next ==
    \/ CheckHeader
    \/ LoadChunk
    \/ LoadFunction
    \/ LoadCode
    \/ LoadCodeLoop
    \/ LoadConstants
    \/ LoadConstantsLoop
    \/ LoadUpvalues
    \/ LoadUpvaluesLoop
    \/ LoadProtos
    \/ LoadProtosLoop
    \/ ReturnToProtos
    \/ LoadDebug
    \/ LoadDebugLinesLoop
    \/ LoadDebugLocvars
    \/ LoadDebugLocvarsLoop
    \/ LoadDebugUpvalues
    \/ LoadDebugUpvaluesLoop
    \/ FromU8Return

-----------------------------------------------------------------------------
(* The buffers the loader is run on.  A dump is described by a tree of      *)
(* records and written out in the wire format the loader reads; the count   *)
(* fields are written as given, so that a description may also lie.         *)

RECURSIVE Flat(_)
Flat(ss) == IF ss = <<>> THEN <<>> ELSE Head(ss) \o Flat(Tail(ss))

Map(f(_), ss) == [i \in 1..Len(ss) |-> f(ss[i])]

\* A string field: the size as written (directly, or after the 0xFF escape)
\* and the content bytes that follow it.
Str(mode, size, content) == [mode |-> mode, size |-> size, content |-> content]
StrOf(mode, content) == Str(mode, Len(content) + 1, content)
SizeField(s) == IF s.mode = "short" THEN 1 ELSE 1 + SizeUsize
EncStr(s) ==
    (IF s.mode = "short" THEN <<s.size>> ELSE <<255>> \o LE(s.size, SizeUsize))
      \o s.content

\* n ASCII bytes
Bytes(b, n) == [i \in 1..n |-> (b + i) % 128]

\* A constant: its tag, the bytes after the tag, and what it stands for.
Const(tag, payload, val) ==
    [tag |-> tag, payload |-> payload, val |-> val,
     isstr |-> FALSE, str |-> Str("short", 0, <<>>)]
ConstStr(tag, s) ==
    [tag |-> tag, payload |-> EncStr(s), val |-> SyxValue("String", s.content),
     isstr |-> TRUE, str |-> s]
EncConst(c) == <<c.tag>> \o c.payload

EncUpvalue(u) == <<u.instack, u.idx>>
EncLocvar(l) == EncStr(l.varname) \o LE32(l.startpc) \o LE32(l.endpc)

RECURSIVE EncFn(_)
EncFn(d) ==
    EncStr(d.name) \o LE32(d.linedefined) \o LE32(d.lastlinedefined)
      \o <<d.numparams, d.is_vararg, d.maxstacksize>>
      \o LE32(d.ncode) \o Flat(d.code)
      \o LE32(d.nconst) \o Flat(Map(EncConst, d.constants))
      \o LE32(d.nupv) \o Flat(Map(EncUpvalue, d.upvalues))
      \o LE32(d.nprotos) \o Flat([i \in 1..Len(d.protos) |-> EncFn(d.protos[i])])
      \o LE32(d.nlines) \o Flat(Map(LE32, d.lineinfo))
      \o LE32(d.nlocvars) \o Flat(Map(EncLocvar, d.locvars))
      \o LE32(d.nupvnames) \o Flat(Map(EncStr, d.upvnames))

EncHeader ==
    SYX_HEADER \o <<SYX_VERSION, SYX_FORMAT>> \o SYX_DATA
      \o <<SizeI32, SizeUsize, SizeWord, SizeSyxInteger, SizeSyxNumber>>
      \o SYX_INT \o SYX_NUM

HeaderLen == Len(EncHeader)

EncDump(d) == EncHeader \o <<0>> \o EncFn(d)

-----------------------------------------------------------------------------
(* The descriptions the buffers are written from. *)

Fn(nm, code, consts, upvalues, protos, lineinfo, locvars, upvnames) ==
    [name |-> nm, linedefined |-> 3, lastlinedefined |-> 9,
     numparams |-> 2, is_vararg |-> 1, maxstacksize |-> 5,
     ncode |-> Len(code), code |-> code,
     nconst |-> Len(consts), constants |-> consts,
     nupv |-> Len(upvalues), upvalues |-> upvalues,
     nprotos |-> Len(protos), protos |-> protos,
     nlines |-> Len(lineinfo), lineinfo |-> lineinfo,
     nlocvars |-> Len(locvars), locvars |-> locvars,
     nupvnames |-> Len(upvnames), upvnames |-> upvnames]

Leaf(nm) == Fn(nm, <<>>, <<>>, <<>>, <<>>, <<>>, <<>>, <<>>)

NameS == StrOf("short", <<83>>)

Word(i) == <<i % NUM_OPCODES, i % 256, 0, 1>>
Words(n) == [i \in 1..n |-> Word(i)]
Upvals(n) == [i \in 1..n |-> [instack |-> i % 2, idx |-> i + 6]]
Lines(n) == [i \in 1..n |-> i * 300 - 301]
Locvars(n) ==
    [i \in 1..n |-> [varname |-> StrOf("short", Bytes(i, i)),
                     startpc |-> i, endpc |-> i + 10]]
UpvNames(n) ==
    [i \in 1..n |-> StrOf(IF i % 2 = 1 THEN "short" ELSE "long", Bytes(40 + i, i))]

ValidConsts ==
    << Const(TNUMINT, <<254, 255, 255, 255, 255, 255, 255, 255>>,
             SyxValue("Integer", <<254, 255, 255, 255, 255, 255, 255, 255>>)),
       ConstStr(TSHRSTR, StrOf("short", <<104, 105>>)),
       Const(TBOOLEAN, <<1>>, SyxValue("Bool", <<1>>)),
       Const(TNUMFLT, <<0, 0, 0, 0, 0, 0, 248, 63>>,
             SyxValue("Number", <<0, 0, 0, 0, 0, 0, 248, 63>>)),
       Const(TNIL, <<>>, SyxValue("Nil", <<>>)),
       ConstStr(TLNGSTR, StrOf("long", <<108, 111, 110, 103>>)),
       Const(TBOOLEAN, <<0>>, SyxValue("Bool", <<0>>)),
       Const(TBOOLEAN, <<2>>, SyxValue("Bool", <<0>>)),
       ConstStr(TLNGSTR, StrOf("short", <<>>)),
       ConstStr(TSHRSTR, Str("long", 0, <<>>)) >>

\* Tags of known types that are no constants, and bytes that are no type.
NonConstantTags == {TLIGHTUSERDATA, TTABLE, TFUNCTION, TUSERDATA, TTHREAD}
UnknownTags == {9, 18, 21, 36, 255}
BadConsts == {Const(t, <<>>, SyxValue("Nil", <<>>)) : t \in NonConstantTags \cup UnknownTags}

Consts(n) == [i \in 1..n |-> ValidConsts[((i - 1) % Len(ValidConsts)) + 1]]

Children(n) ==
    [i \in 1..n |->
        Fn(StrOf("short", Bytes(64 + i, 1)), Words(i), Consts(i - 1),
           Upvals(i), <<>>, Lines(i - 1), <<>>, UpvNames(i - 1))]

\* How many elements each of the seven sections holds: all the same, or one
\* section alone.
Sections == 1..7
Profiles ==
    {[j \in Sections |-> c] : c \in 0..MaxCount}
      \cup {[j \in Sections |-> IF j = k THEN c ELSE 0] :
                k \in Sections, c \in 1..MaxCount}

FromProfile(t) ==
    Fn(NameS, Words(t[1]), Consts(t[2]), Upvals(t[3]), Children(t[4]),
       Lines(t[5]), Locvars(t[6]), UpvNames(t[7]))

\* Source names: absent (size 0), empty (size 1), present; both size forms.
Names ==
    { Str("short", 0, <<>>), Str("short", 1, <<>>),
      Str("long", 0, <<>>), Str("long", 1, <<>>),
      NameS, StrOf("long", <<83>>), StrOf("short", <<195, 169, 33>>),
      StrOf("short", <<255>>), StrOf("long", <<195>>) }

NameDescs ==
    {Leaf(r) : r \in Names}
      \cup {Fn(r, <<>>, <<>>, <<>>, <<Leaf(c)>>, <<>>, <<>>, <<>>) :
                r \in Names, c \in Names}

\* Nesting: a chain of functions, the innermost ones unnamed.
RECURSIVE Chain(_)
Chain(depth) ==
    IF depth = 0 THEN Leaf(Str("short", 0, <<>>))
    ELSE Fn(IF depth % 2 = 0 THEN NameS ELSE Str("short", 1, <<>>),
            Words(1), <<>>, Upvals(1), <<Chain(depth - 1), Leaf(NameS)>>,
            <<>>, <<>>, UpvNames(1))
MaxDepth == 2
ChainDescs == {Chain(d) : d \in 1..MaxDepth}

\* Constants: one or two, well-formed or not.
ConstKinds == {ValidConsts[i] : i \in 1..Len(ValidConsts)} \cup BadConsts
ConstDescs ==
    {Fn(NameS, <<>>, <<c>>, <<>>, <<>>, <<>>, <<>>, <<>>) : c \in ConstKinds}
      \cup {Fn(NameS, <<>>, <<ValidConsts[i], c>>, <<>>, <<>>, <<>>, <<>>, <<>>) :
                i \in 1..2, c \in ConstKinds}

\* Strings around the boundary of the one-byte size.
BoundaryLens == {0, 1, 2, 252, 253, 254}
BoundaryStrs ==
    {StrOf("long", Bytes(n, n)) : n \in BoundaryLens}
      \cup {StrOf("short", Bytes(n, n)) : n \in {m \in BoundaryLens : m + 1 < 255}}
StringDescs ==
    {Fn(Str("short", 0, <<>>), <<>>, <<ConstStr(TSHRSTR, x), ValidConsts[3]>>,
        <<>>, <<>>, <<>>, <<>>, <<>>) : x \in BoundaryStrs}

\* Upvalue names: k names for u upvalues.
UpvalueDescs ==
    {Fn(NameS, <<>>, <<>>, Upvals(u), <<>>, <<>>, Locvars(1), UpvNames(k)) :
        u \in 0..MaxCount, k \in 0..(MaxCount + 1)}

\* Count fields that lie.
HostileCounts == {-1, -2147483647 - 1, 2147483647, 3, 0}
One == FromProfile([j \in Sections |-> 1])
HostileDescs ==
    UNION {{[One EXCEPT !.ncode = h], [One EXCEPT !.nconst = h],
            [One EXCEPT !.nupv = h], [One EXCEPT !.nprotos = h],
            [One EXCEPT !.nlines = h], [One EXCEPT !.nlocvars = h],
            [One EXCEPT !.nupvnames = h]} : h \in HostileCounts}

\* Scalar fields, and a word that is no instruction.
ScalarDescs ==
    {[Leaf(NameS) EXCEPT !.linedefined = l, !.lastlinedefined = 0 - l,
                         !.numparams = b, !.is_vararg = 2 - (b % 3),
                         !.maxstacksize = 255 - b] :
        l \in {-1, 0, 70000}, b \in {0, 1, 200}}
      \cup {Fn(NameS, <<Word(1), <<63, 0, 0, 0>>>>, <<>>, <<>>, <<>>, <<>>, <<>>, <<>>)}

BuiltDescs ==
    {FromProfile(t) : t \in Profiles} \cup NameDescs \cup ChainDescs
      \cup ConstDescs \cup StringDescs \cup UpvalueDescs \cup HostileDescs
      \cup ScalarDescs

-----------------------------------------------------------------------------
(* What a description says of the dump written from it. *)

ConstantTags == {TNIL, TBOOLEAN, TNUMFLT, TNUMINT, TSHRSTR, TLNGSTR}

WellFormedStr(x) ==
    /\ x.size \in {0, 1} => x.content = <<>>
    /\ x.size > 1 => x.size = Len(x.content) + 1
    /\ x.mode = "short" => x.size < 255

CountsAgree(d) ==
    /\ d.ncode = Len(d.code)
    /\ d.nconst = Len(d.constants)
    /\ d.nupv = Len(d.upvalues)
    /\ d.nprotos = Len(d.protos)
    /\ d.nlines = Len(d.lineinfo)
    /\ d.nlocvars = Len(d.locvars)
    /\ d.nupvnames = Len(d.upvnames)

StringsWellFormed(d) ==
    /\ WellFormedStr(d.name)
    /\ IsUtf8(d.name.content, 1)
    /\ \A i \in 1..Len(d.constants) : WellFormedStr(d.constants[i].str)
    /\ \A i \in 1..Len(d.locvars) : WellFormedStr(d.locvars[i].varname)
    /\ \A i \in 1..Len(d.upvnames) : WellFormedStr(d.upvnames[i])

WordsValid(d) == \A i \in 1..Len(d.code) : d.code[i][1] % 64 < NUM_OPCODES
TagsValid(d) == \A i \in 1..Len(d.constants) : d.constants[i].tag \in ConstantTags
NamesFit(d) == d.nupvnames <= d.nupv

\* Everything but the constant tags and the number of upvalue names.
RECURSIVE Sound(_)
Sound(d) ==
    /\ CountsAgree(d)
    /\ StringsWellFormed(d)
    /\ WordsValid(d)
    /\ \A i \in 1..Len(d.protos) :
          Sound(d.protos[i]) /\ TagsValid(d.protos[i]) /\ NamesFit(d.protos[i])

\* A valid dump: what a compatible encoder writes.
Valid(d) == Sound(d) /\ TagsValid(d) /\ NamesFit(d)

\* The decoded prototype p is what the description d describes.
RECURSIVE Matches(_, _)
Matches(p, d) ==
    /\ d.name.content # <<>> => p.source = d.name.content
    /\ p.linedefined = d.linedefined
    /\ p.lastlinedefined = d.lastlinedefined
    /\ p.numparams = d.numparams
    /\ p.is_vararg = (d.is_vararg # 0)
    /\ p.maxstacksize = d.maxstacksize
    /\ Len(p.instructions) = d.ncode
    /\ p.instructions = d.code
    /\ Len(p.constants) = d.nconst
    /\ \A i \in 1..Len(p.constants) : p.constants[i] = d.constants[i].val
    /\ Len(p.upvalues) = d.nupv
    /\ \A i \in 1..Len(p.upvalues) :
          /\ p.upvalues[i].instack = d.upvalues[i].instack
          /\ p.upvalues[i].idx = d.upvalues[i].idx
          /\ p.upvalues[i].name =
                (IF i <= d.nupvnames THEN d.upvnames[i].content ELSE <<>>)
    /\ Len(p.protos) = d.nprotos
    /\ \A i \in 1..Len(p.protos) : Matches(p.protos[i], d.protos[i])
    /\ Len(p.lineinfo) = d.nlines
    /\ p.lineinfo = d.lineinfo
    /\ Len(p.locvars) = d.nlocvars
    /\ \A i \in 1..Len(p.locvars) :
          /\ p.locvars[i].varname = d.locvars[i].varname.content
          /\ p.locvars[i].startpc = d.locvars[i].startpc
          /\ p.locvars[i].endpc = d.locvars[i].endpc

-----------------------------------------------------------------------------
(* How a buffer is made: the dump of a description, cut to its first `cut`  *)
(* bytes, with `extra` appended and the bytes at `patch` overwritten.       *)

Origin(kind, d, cut, extra, patch) ==
    [kind |-> kind, desc |-> d, cut |-> cut, extra |-> extra, patch |-> patch]

Patch(b, f) == [i \in 1..Len(b) |-> IF i \in DOMAIN f THEN f[i] ELSE b[i]]

Buffer(o) == Patch(SubSeq(EncDump(o.desc), 1, o.cut) \o o.extra, o.patch)

Built == {Origin("built", d, Len(EncDump(d)), <<>>, <<>>) : d \in BuiltDescs}

\* Dumps that are cut short or extended.
SampleDescs ==
    {FromProfile([j \in Sections |-> c]) : c \in 0..MaxCount}
      \cup {Chain(1), Leaf(StrOf("long", <<83, 121>>))}

Prefixes ==
    UNION {{Origin("prefix", d, c, <<>>, <<>>) : c \in 0..(Len(EncDump(d)) - 1)} :
              d \in SampleDescs}

ExtraBytes == {0, 27, 255}
Extras == UNION {[1..n -> ExtraBytes] : n \in 1..MaxExtra}
Extended ==
    {Origin("extended", d, Len(EncDump(d)), x, <<>>) :
        d \in SampleDescs, x \in Extras}
      \cup {Origin("extended", d, Len(EncDump(d)), <<0>>, <<>>) :
                d \in {e \in BuiltDescs : Valid(e)}}

\* Headers with one or two bytes changed, alone or before a function block.
Changed(i, delta) == i :> ((EncHeader[i] + delta) % 256)
HeaderPatches ==
    {Changed(i, delta) : i \in 1..HeaderLen, delta \in {1, 128, 255}}
      \cup UNION {{Changed(i, 1) @@ Changed(j, 255) : j \in (i + 1)..HeaderLen} :
                    i \in 1..HeaderLen}
BadHeaders ==
    {Origin("header", Leaf(NameS), c, <<>>, f) :
        c \in {HeaderLen, Len(EncDump(Leaf(NameS)))}, f \in HeaderPatches}

Origins == Built \cup Prefixes \cup Extended \cup BadHeaders

DiagNames == {"a.syx", "b.syx"}

\* LoadState { input: buffer.into_iter(), name, state: None } in from_u8
Init ==
    /\ origin \in Origins
    /\ input = Buffer(origin)
    /\ name \in (IF origin.kind = "header" /\ origin.cut = HeaderLen
                 THEN DiagNames ELSE {"a.syx"})
    /\ pos = 0
    /\ phase = "header"
    /\ stack = <<>>
    /\ result = None

Spec == Init /\ [][Next]_vars

-----------------------------------------------------------------------------
Returned == phase = "done"
Whole == origin.kind = "built"

-----------------------------------------------------------------------------
(* C1: a nested function whose own source name is encoded empty gets the    *)
(* source name of the enclosing function.                                    *)
C1_NestedInheritsSource ==
    (Returned /\ Whole /\ Valid(origin.desc) /\ result.tag = "Ok") =>
        \A i \in 1..Len(origin.desc.protos) :
            origin.desc.protos[i].name.content = <<>> =>
                result.proto.protos[i].source = result.proto.source

(* C2: from_u8 of a strict prefix of a valid dump returns the truncated-   *)
(* input error (InvalidVerification, "Not enough bytes"), never Ok.         *)
C2_PrefixIsRejected ==
    (Returned /\ origin.kind = "prefix" /\ Valid(origin.desc)) =>
        /\ result.tag = "Err"
        /\ result.kind = "InvalidVerification"
        /\ result.msg = "Not enough bytes"
        /\ pos = Len(input)

\* a prefix that ends inside the header literal has been rejected
C2_Witness ==
    /\ Returned
    /\ origin.kind = "prefix"
    /\ origin.cut \in 1..(Len(SYX_HEADER) - 1)
    /\ result.tag = "Err"

(* C3: from_u8 of a valid dump followed by one or more bytes returns        *)
(* BufferNotEmpty after reading exactly one byte past the dump, and an Ok   *)
(* is returned only with the buffer exhausted.                               *)
C3_TrailingDataIsRejected ==
    /\ (Returned /\ origin.kind = "extended" /\ Valid(origin.desc)) =>
          /\ result.tag = "Err"
          /\ result.kind = "BufferNotEmpty"
          /\ pos = origin.cut + 1
    /\ (Returned /\ result.tag = "Ok") => pos = Len(input)

C3_Witness ==
    /\ Returned
    /\ origin.kind = "extended"
    /\ Len(origin.extra) = MaxExtra
    /\ origin.desc.nprotos > 0
    /\ result.tag = "Err"
    /\ result.kind = "BufferNotEmpty"

(* C4: from_u8 of a valid dump returns Ok, and every prototype of the tree  *)
(* holds exactly the encoded numbers of instructions, constants, upvalues   *)
(* and nested prototypes, element by element in the encoded order, and the  *)
(* scalar fields in the order of the wire format.                            *)
C4_ValidDumpDecodes ==
    (Returned /\ Whole /\ Valid(origin.desc)) =>
        /\ result.tag = "Ok"
        /\ Matches(result.proto, origin.desc)

C4_Witness ==
    /\ Returned
    /\ Whole
    /\ origin.desc = FromProfile([j \in Sections |-> MaxCount])
    /\ result.tag = "Ok"
    /\ Len(result.proto.protos) = MaxCount
    /\ Len(result.proto.constants) = MaxCount

-----------------------------------------------------------------------------
(* The header as the wire format lays it out: offset, length and the        *)
(* message of the check that reads the field, in the order of the format.   *)
HeaderFields ==
    << <<0, 4, "literal mismatch: header">>,
       <<4, 1, "version mismatch">>,
       <<5, 1, "format mismatch">>,
       <<6, 6, "literal mismatch: load order verification">>,
       <<12, 1, "size mismatch: i32">>,
       <<13, 1, "size mismatch: usize">>,
       <<14, 1, "size mismatch: Word">>,
       <<15, 1, "size mismatch: SyxInteger">>,
       <<16, 1, "size mismatch: SyxNumber">>,
       <<17, 8, "endianness mismatch">>,
       <<25, 8, "float format mismatch">> >>

FieldDiffers(inp, k) ==
    LET f == HeaderFields[k]
    IN  SubSeq(inp, f[1] + 1, f[1] + f[2]) # SubSeq(EncHeader, f[1] + 1, f[1] + f[2])

FirstMismatch(inp) ==
    CHOOSE k \in 1..Len(HeaderFields) :
        /\ FieldDiffers(inp, k)
        /\ \A j \in 1..(k - 1) : ~FieldDiffers(inp, j)

(* C5: on a full-length header with one or more wrong fields, from_u8       *)
(* returns InvalidVerification with the dump's diagnostic name and the      *)
(* message of the first wrong field in the order literal, version, format,  *)
(* load-order literal, five sizes, integer canary, float canary; the cursor *)
(* stops at the end of that field, so no byte of the function block is read.*)
C5_FirstFailedCheckIsReported ==
    (Returned /\ origin.kind = "header") =>
        LET f == HeaderFields[FirstMismatch(input)] IN
        /\ result = raise_from_verification(name, f[3], 0)
        /\ pos = f[1] + f[2]
        /\ pos <= HeaderLen

\* only the integer canary is wrong, a function block follows, and the
\* endianness check is the one reported
C5_Witness ==
    /\ Returned
    /\ origin.kind = "header"
    /\ DOMAIN origin.patch \subseteq 18..25
    /\ Len(input) > HeaderLen
    /\ result.tag = "Err"
    /\ result.msg = "endianness mismatch"

\* The root function's constant the loop of load_constants is about to read.
C6_Case ==
    /\ At("constants_loop")
    /\ Len(stack) = 1
    /\ Whole
    /\ Valid(origin.desc)
    /\ Top.i < Top.n
    /\ Top.i < Len(origin.desc.constants)
    /\ origin.desc.constants[Top.i + 1].isstr
    /\ origin.desc.constants[Top.i + 1].str.size =
          Len(origin.desc.constants[Top.i + 1].str.content) + 1

(* C6: a string of n content bytes whose size n+1 is written as one byte,  *)
(* or as 0xFF and a usize, is read back as exactly those bytes; the cursor  *)
(* moves by 1+n in the first form and by 1+sizeof(usize)+n in the second    *)
(* (after the tag byte of the constant).                                     *)
C6_StringBothSizeForms ==
    [][C6_Case =>
        LET x == origin.desc.constants[Top.i + 1].str IN
        /\ pos' = pos + SizeU8
                    + (IF x.mode = "short" THEN 1 ELSE 1 + SizeUsize)
                    + Len(x.content)
        /\ phase' = "function"
        /\ Len(stack'[1].proto.constants) = Top.i + 1
        /\ stack'[1].proto.constants[Top.i + 1] = SyxValue("String", x.content)
      ]_vars

\* a string of 254 bytes, whose size 0xFF needs the escape, has been read
C6_Witness ==
    /\ At("constants_loop")
    /\ Len(stack) = 1
    /\ Whole
    /\ Top.i = 1
    /\ origin.desc.constants[1].isstr
    /\ origin.desc.constants[1].str.mode = "long"
    /\ Len(origin.desc.constants[1].str.content) = 254
    /\ Top.proto.constants[1].v = origin.desc.constants[1].str.content

\* The root function's upvalue-name loop, in a dump that is well-formed but
\* for the number of names.
C7_Case ==
    /\ At("debug_upvalues_loop")
    /\ Len(stack) = 1
    /\ Whole
    /\ Sound(origin.desc)
    /\ TagsValid(origin.desc)

(* C7: with k names for u upvalues, the turn for name i < u assigns that    *)
(* name to upvalue i and changes nothing else of the upvalues; the turn for *)
(* name u fails with InvalidUpvalueIndex(u) without reading a byte, the     *)
(* first u names being assigned by then; names not yet assigned are empty.  *)
C7_UpvalueNames ==
    /\ [](C7_Case =>
            /\ Len(Top.proto.upvalues) = origin.desc.nupv
            /\ Top.n = origin.desc.nupvnames
            /\ Top.i <= Top.n
            /\ \A j \in 1..Len(Top.proto.upvalues) :
                  /\ j > Top.i => Top.proto.upvalues[j].name = <<>>
                  /\ Top.proto.upvalues[j].instack = origin.desc.upvalues[j].instack
                  /\ Top.proto.upvalues[j].idx = origin.desc.upvalues[j].idx)
    /\ [][(C7_Case /\ Top.i < Top.n) =>
            IF Top.i >= origin.desc.nupv
            THEN /\ phase' = "done"
                 /\ result'.tag = "Err"
                 /\ result'.kind = "InvalidUpvalueIndex"
                 /\ result'.arg = origin.desc.nupv
                 /\ pos' = pos
                 /\ \A j \in 1..origin.desc.nupv :
                        Top.proto.upvalues[j].name = origin.desc.upvnames[j].content
            ELSE /\ phase' = "function"
                 /\ stack'[1].proto.upvalues =
                        [Top.proto.upvalues EXCEPT
                            ![Top.i + 1].name = origin.desc.upvnames[Top.i + 1].content]
         ]_vars

C7_Witness ==
    /\ Returned
    /\ Whole
    /\ origin.desc.nupv = MaxCount
    /\ origin.desc.nupvnames = MaxCount + 1
    /\ result.tag = "Err"
    /\ result.kind = "InvalidUpvalueIndex"
    /\ result.arg = MaxCount

FirstBadTag(d) ==
    LET k == CHOOSE i \in 1..Len(d.constants) :
                 /\ d.constants[i].tag \notin ConstantTags
                 /\ \A j \in 1..(i - 1) : d.constants[j].tag \in ConstantTags
    IN  d.constants[k].tag

C9_ReturnsOkOrErr == Returned => result.tag \in {"Ok", "Err"}

\* The description of the function the innermost load_function call reads.
C10_Node ==
    IF Len(stack) = 1 THEN origin.desc
    ELSE origin.desc.protos[stack[1].i + 1]

C10_Case ==
    /\ At("function")
    /\ Len(stack) <= 2
    /\ Whole
    /\ Valid(origin.desc)
    /\ Len(stack) = 2 => stack[1].i < Len(origin.desc.protos)
    /\ C10_Node.name.size \in {0, 1}

(* C10: a source name of size 0 and one of size 1, written directly or     *)
(* after the escape, both read as the empty string: no content byte is     *)
(* consumed, no error is raised, and the prototype's source becomes the     *)
(* `source` argument of load_function.                                       *)
C10_EmptyNameFallsBack ==
    [][C10_Case =>
        /\ phase' = "function"
        /\ pos' = pos + SizeField(C10_Node.name) + 2 * SizeSyxInt + 3 * SizeU8
        /\ stack'[Len(stack)].proto.source = Top.src
      ]_vars

\* a nested function whose name is written as 0xFF and the usize 1
C10_Witness ==
    /\ At("code")
    /\ Len(stack) = 2
    /\ Whole
    /\ Valid(origin.desc)
    /\ stack[1].i < Len(origin.desc.protos)
    /\ C10_Node.name = Str("long", 1, <<>>)
    /\ Top.proto.source = Top.src

-----------------------------------------------------------------------------
(* What does hold of every buffer: the cursor never moves back and stays   *)
(* within the buffer.                                                        *)
CursorNeverMovesBack == [][pos' >= pos]_vars
CursorInBuffer == pos \in 0..Len(input)

=============================================================================
